---- MODULE Spec2Model ----
(***************************************************************************)
(* Model of the MCP WebSocket ticket server (samaye-pro/mcp-server).       *)
(* The repository holds two variants of the server program:                *)
(*   - src/unnamed/part_000 : handleWebSocket / handleRequest / sendError  *)
(*   - src/main.go          : wsHandler / writeJSONConn / ticketsByStatus  *)
(* The variable "handler" says which of the two programs is running; each  *)
(* connection is served by one sequential read-dispatch-write loop.        *)
(***************************************************************************)
EXTENDS Integers, Sequences, FiniteSets, TLC

\* ------------------------------------------------------------------------
\* Bounds
\* ------------------------------------------------------------------------
\* Number of frames a connection delivers before the peer stops sending.
MaxFrames == 2

\* The connection slots of the process, and the ones a client connects to.
Conns == {1, 2}
Clients == {1}

\* The two server programs of the repository.
Handlers == {"handleWebSocket", "wsHandler"}

\* ------------------------------------------------------------------------
\* JSON documents arriving as text frames
\* ------------------------------------------------------------------------
\* A member of a JSON object: absent, a string, a number, null, an array or
\* an object.  s is the string's value ("" for every other kind).
JAbsent == [k |-> "absent", s |-> ""]
JNum == [k |-> "num", s |-> ""]
JArr == [k |-> "arr", s |-> ""]
JObj == [k |-> "obj", s |-> ""]
JNull == [k |-> "null", s |-> ""]
JStr(x) == [k |-> "str", s |-> x]

\* params of a frame: absent, null, an array, or an object with members
\* name and arguments.
NoParams == [k |-> "absent", name |-> JAbsent, arguments |-> JAbsent]
NullParams == [k |-> "null", name |-> JAbsent, arguments |-> JAbsent]
ArrParams == [k |-> "arr", name |-> JAbsent, arguments |-> JAbsent]
ObjParams(n, a) == [k |-> "obj", name |-> n, arguments |-> a]

\* A text frame: not JSON at all ("garbage"), or a JSON document that is
\* null, an array, or an object with members id, method, params.
Garbage == [shape |-> "garbage", id |-> JAbsent, method |-> JAbsent, params |-> NoParams]
NullDoc == [shape |-> "null", id |-> JAbsent, method |-> JAbsent, params |-> NoParams]
ArrDoc == [shape |-> "array", id |-> JAbsent, method |-> JAbsent, params |-> NoParams]
ObjDoc(i, m, p) == [shape |-> "object", id |-> i, method |-> m, params |-> p]

NoFrame == [shape |-> "none", id |-> JAbsent, method |-> JAbsent, params |-> NoParams]

ToolNames == {"get_pending_tickets", "get_done_tickets", "get_todo_tickets"}

\* Names sent in tools/call: the registered ones, an unregistered one and a
\* registered one in another case.
NameVals == {JAbsent, JNum} \cup {JStr(n) : n \in ToolNames \cup {"nonexistent", "GET_DONE_TICKETS", ""}}

IdVals == {JAbsent, JNum, JStr("1"), JStr("2")}

MethodVals == {JNum, JStr("initialize"), JStr("tools/list"), JStr("ping"), JStr("unknown/thing")}

Frames ==
    {Garbage, NullDoc, ArrDoc}
    \cup {ObjDoc(i, m, NoParams) : i \in IdVals, m \in MethodVals}
    \cup {ObjDoc(JStr("1"), JAbsent, NoParams)}
    \cup {ObjDoc(i, JStr("initialize"), ArrParams) : i \in {JAbsent, JStr("1")}}
    \cup {ObjDoc(i, JStr("tools/call"), ObjParams(n, JAbsent)) : i \in {JStr("1"), JStr("2")}, n \in NameVals}
    \cup {ObjDoc(JStr("1"), JStr("tools/call"), p) : p \in {NoParams, NullParams, ArrParams}}
    \cup {ObjDoc(JStr("1"), JStr("tools/call"), ObjParams(JStr(n), a)) :
              n \in {"get_done_tickets", "nonexistent"}, a \in {JObj, JArr}}

\* Values time.Now() may return.
Clock == {"t1", "t2"}

\* ------------------------------------------------------------------------
\* Decoding a frame into an MCPRequest (encoding/json.Unmarshal)
\* ------------------------------------------------------------------------
\* Unmarshal of one member into a Go string field: a string is stored, an
\* absent or null member leaves the zero value, any other kind is a type
\* error and leaves the zero value.
StringField(v) == IF v.k = "str" THEN v.s ELSE ""
StringFieldErr(v) == v.k \notin {"str", "absent", "null"}

\* The zero MCPRequest.  Params keeps the params member as decoded.
ZeroRequest == [ID |-> "", Method |-> "", Params |-> NoParams]

\* part_000: Params is a json.RawMessage, it takes the member's text as is
\* and never fails.
DecodeRaw(f) ==
    IF f.shape = "garbage" THEN [err |-> "syntax", req |-> ZeroRequest]
    ELSE IF f.shape = "null" THEN [err |-> "none", req |-> ZeroRequest]
    ELSE IF f.shape = "array" THEN [err |-> "type", req |-> ZeroRequest]
    ELSE [err |-> IF StringFieldErr(f.id) \/ StringFieldErr(f.method) THEN "type" ELSE "none",
          req |-> [ID |-> StringField(f.id), Method |-> StringField(f.method), Params |-> f.params]]

\* main.go: Params is a map[string]interface{}; an absent or null member
\* leaves the nil map, an array is a type error and leaves the nil map.
DecodeMap(f) ==
    IF f.shape = "garbage" THEN [err |-> "syntax", req |-> ZeroRequest]
    ELSE IF f.shape = "null" THEN [err |-> "none", req |-> ZeroRequest]
    ELSE IF f.shape = "array" THEN [err |-> "type", req |-> ZeroRequest]
    ELSE [err |-> IF StringFieldErr(f.id) \/ StringFieldErr(f.method) \/ f.params.k = "arr"
                  THEN "type" ELSE "none",
          req |-> [ID |-> StringField(f.id), Method |-> StringField(f.method),
                   Params |-> IF f.params.k = "obj" THEN f.params ELSE NoParams]]

\* ------------------------------------------------------------------------
\* Responses (the Go MCPResponse value before encoding)
\* ------------------------------------------------------------------------
Ticket(i, t, s) == [id |-> i, title |-> t, status |-> s]

NilResult == [tag |-> "nil", server |-> "", tools |-> <<>>, tickets |-> <<>>,
              count |-> 0, args |-> "nil", pong |-> ""]
NilError == [code |-> "", message |-> <<>>]

MCPError(c, m) == [code |-> c, message |-> m]
MCPResponse(i, m, r, e) == [ID |-> i, Method |-> m, Result |-> r, Error |-> e]

\* Error codes.  part_000 sends JSON-RPC integers, main.go symbolic strings;
\* both are kept as the text that goes on the wire.
ParseErrorCode(h) == IF h = "handleWebSocket" THEN "-32700" ELSE "INVALID_JSON"
MethodNotFoundCode(h) == IF h = "handleWebSocket" THEN "-32601" ELSE "UNKNOWN_METHOD"
InvalidParamsCode(h) == IF h = "handleWebSocket" THEN "-32602" ELSE "MISSING_TOOL_NAME"
ToolNotFoundCode(h) == IF h = "handleWebSocket" THEN "-32602" ELSE "TOOL_NOT_FOUND"

\* ------------------------------------------------------------------------
\* part_000: handleRequest and its handlers
\* ------------------------------------------------------------------------
handleInitialize(req) ==
    MCPResponse(req.ID, "",
        [NilResult EXCEPT !.tag = "initialize", !.server = "go-mcp-demo"], NilError)

handleToolsList(req) ==
    MCPResponse(req.ID, "",
        [NilResult EXCEPT !.tag = "tools",
            !.tools = << [name |-> "get_pending_tickets", description |-> "Returns a list of pending tickets"],
                         [name |-> "get_done_tickets", description |-> "Returns a list of completed tickets"],
                         [name |-> "get_todo_tickets", description |-> "Returns a list of todo tickets"] >>],
        NilError)

\* json.Unmarshal(req.Params, &params) into ToolCallParams{Name string,
\* Arguments map[string]interface{}}: empty input (no params member) and an
\* array are errors, null leaves the zero value.
ToolCallParams(p) ==
    IF p.k = "absent" THEN [err |-> TRUE, Name |-> "", Arguments |-> "nil"]
    ELSE IF p.k = "null" THEN [err |-> FALSE, Name |-> "", Arguments |-> "nil"]
    ELSE IF p.k = "arr" THEN [err |-> TRUE, Name |-> "", Arguments |-> "nil"]
    ELSE [err |-> StringFieldErr(p.name) \/ p.arguments.k \notin {"absent", "null", "obj"},
          Name |-> StringField(p.name),
          Arguments |-> IF p.arguments.k = "obj" THEN "obj" ELSE "nil"]

TicketsResponse(ts) == [NilResult EXCEPT !.tag = "tickets", !.tickets = ts]

\* handleToolCall looking the tool up without regard to case.
ToLower(n) == IF n = "GET_DONE_TICKETS" THEN "get_done_tickets" ELSE n

handleToolCall_nocase(req) ==
    LET params == ToolCallParams(req.Params) IN
    IF params.err
    THEN MCPResponse(req.ID, "", NilResult, MCPError("-32602", <<"Invalid params">>))
    ELSE IF ToLower(params.Name) = "get_pending_tickets"
    THEN MCPResponse(req.ID, "",
            TicketsResponse(<< Ticket("T1", "Fix login bug", "pending"),
                               Ticket("T2", "Database indexing", "pending") >>), NilError)
    ELSE IF ToLower(params.Name) = "get_done_tickets"
    THEN MCPResponse(req.ID, "",
            TicketsResponse(<< Ticket("T10", "Payment integration", "done"),
                               Ticket("T11", "Email system", "done") >>), NilError)
    ELSE IF ToLower(params.Name) = "get_todo_tickets"
    THEN MCPResponse(req.ID, "",
            TicketsResponse(<< Ticket("T20", "Create dashboard UI", "todo"),
                               Ticket("T21", "Add search filter", "todo") >>), NilError)
    ELSE MCPResponse(req.ID, "", NilResult,
            MCPError("-32602", <<"Unknown tool: ", params.Name>>))

handleToolCall(req) ==
    LET params == ToolCallParams(req.Params) IN
    IF params.err
    THEN MCPResponse(req.ID, "", NilResult, MCPError("-32602", <<"Invalid params">>))
    ELSE IF params.Name = "get_pending_tickets"
    THEN MCPResponse(req.ID, "",
            TicketsResponse(<< Ticket("T1", "Fix login bug", "pending"),
                               Ticket("T2", "Database indexing", "pending") >>), NilError)
    ELSE IF params.Name = "get_done_tickets"
    THEN MCPResponse(req.ID, "",
            TicketsResponse(<< Ticket("T10", "Payment integration", "done"),
                               Ticket("T11", "Email system", "done") >>), NilError)
    ELSE IF params.Name = "get_todo_tickets"
    THEN MCPResponse(req.ID, "",
            TicketsResponse(<< Ticket("T20", "Create dashboard UI", "todo"),
                               Ticket("T21", "Add search filter", "todo") >>), NilError)
    ELSE MCPResponse(req.ID, "", NilResult,
            MCPError("-32602", <<"Unknown tool: ", params.Name>>))

\* handleRequest with the default branch forgetting the request's id.
handleRequest_noid(req) ==
    IF req.Method = "initialize" THEN handleInitialize(req)
    ELSE IF req.Method = "tools/list" THEN handleToolsList(req)
    ELSE IF req.Method = "tools/call" THEN handleToolCall(req)
    ELSE MCPResponse("", "", NilResult,
            MCPError("-32601", <<"Method not found: ", req.Method>>))

handleRequest(req) ==
    IF req.Method = "initialize" THEN handleInitialize(req)
    ELSE IF req.Method = "tools/list" THEN handleToolsList(req)
    ELSE IF req.Method = "tools/call" THEN handleToolCall(req)
    ELSE MCPResponse(req.ID, "", NilResult,
            MCPError("-32601", <<"Method not found: ", req.Method>>))

\* The response sendError builds.
sendError(id, code, message) == MCPResponse(id, "", NilResult, MCPError(code, message))

\* ------------------------------------------------------------------------
\* main.go: ticket store and the switch of wsHandler
\* ------------------------------------------------------------------------
tickets ==
    << Ticket("T1", "Fix login bug", "pending"),
       Ticket("T2", "Database indexing", "pending"),
       Ticket("T10", "Payment integration", "done"),
       Ticket("T11", "Email system", "done"),
       Ticket("T20", "Create dashboard UI", "todo"),
       Ticket("T21", "Add search filter", "todo") >>

\* The loop of ticketsByStatus putting each match in front of the others.
RECURSIVE ticketsFrom_rev(_, _)
ticketsFrom_rev(i, status) ==
    IF i > Len(tickets) THEN <<>>
    ELSE IF tickets[i].status = status
         THEN ticketsFrom_rev(i + 1, status) \o <<tickets[i]>>
         ELSE ticketsFrom_rev(i + 1, status)

RECURSIVE ticketsFrom(_, _)
ticketsFrom(i, status) ==
    IF i > Len(tickets) THEN <<>>
    ELSE IF tickets[i].status = status
         THEN <<tickets[i]>> \o ticketsFrom(i + 1, status)
         ELSE ticketsFrom(i + 1, status)

\* ticketsByStatus without the status test.
ticketsByStatus_all(status) == tickets

ticketsByStatus(status) == ticketsFrom(1, status)

\* The result of one of the three tool cases of wsHandler.
wsToolResult(status, args) ==
    [NilResult EXCEPT !.tag = "tickets", !.tickets = ticketsByStatus(status),
                      !.count = Len(ticketsByStatus(status)), !.args = args]

\* case "tools/call" of wsHandler.  Params is the decoded map (nil when the
\* member was absent or null).
wsToolsCall(req) ==
    IF req.Params.k # "obj" \/ req.Params.name.k = "absent"
    THEN MCPResponse(req.ID, "", NilResult,
            MCPError("MISSING_TOOL_NAME", <<"params.name is required">>))
    ELSE LET toolName == StringField(req.Params.name)
             args == IF req.Params.arguments.k = "obj" THEN "obj" ELSE "nil"
         IN IF toolName = "get_pending_tickets"
            THEN MCPResponse(req.ID, "", wsToolResult("pending", args), NilError)
            ELSE IF toolName = "get_done_tickets"
            THEN MCPResponse(req.ID, "", wsToolResult("done", args), NilError)
            ELSE IF toolName = "get_todo_tickets"
            THEN MCPResponse(req.ID, "", wsToolResult("todo", args), NilError)
            ELSE MCPResponse(req.ID, "", NilResult,
                    MCPError("TOOL_NOT_FOUND", <<"Unknown tool: ", toolName>>))

\* switch req.Method of wsHandler; now is the value of time.Now().
wsSwitch(req, now) ==
    IF req.Method = "initialize"
    THEN MCPResponse(req.ID, "initialized",
            [NilResult EXCEPT !.tag = "initialized", !.server = "go-mcp-tickets",
                !.tools = << [name |-> "get_pending_tickets", description |-> "Get pending tickets"],
                             [name |-> "get_done_tickets", description |-> "Get done tickets"],
                             [name |-> "get_todo_tickets", description |-> "Get todo tickets"] >>],
            NilError)
    ELSE IF req.Method = "tools/call" THEN wsToolsCall(req)
    ELSE IF req.Method = "ping"
    THEN MCPResponse(req.ID, "", [NilResult EXCEPT !.tag = "pong", !.pong = now], NilError)
    ELSE MCPResponse(req.ID, "", NilResult,
            MCPError("UNKNOWN_METHOD", <<"Method not supported: ", req.Method>>))

\* The reply of wsHandler to a frame that failed to decode: the id is
\* whatever Unmarshal stored in req before it returned the error.
wsParseError(d) ==
    MCPResponse(d.req.ID, "", NilResult,
        MCPError("INVALID_JSON", <<IF d.err = "syntax" THEN "invalid character" ELSE "json: cannot unmarshal">>))

\* ------------------------------------------------------------------------
\* Encoding (encoding/json.Marshal of an MCPResponse)
\* ------------------------------------------------------------------------
\* The JSON object on the wire: keys is the set of members present.  id has
\* no omitempty tag and is always present; method, result and error are
\* tagged omitempty and are left out when empty or nil.
\* Marshal with the omitempty tags forgotten: every member is written.
Marshal_noomit(r) ==
    [keys |-> {"id", "method", "result", "error"},
     id |-> r.ID, method |-> r.Method, result |-> r.Result, error |-> r.Error]

Marshal(r) ==
    [keys |-> {"id"}
              \cup (IF r.Method # "" THEN {"method"} ELSE {})
              \cup (IF r.Result # NilResult THEN {"result"} ELSE {})
              \cup (IF r.Error # NilError THEN {"error"} ELSE {}),
     id |-> r.ID, method |-> r.Method, result |-> r.Result, error |-> r.Error]

\* No message (nothing encoded yet), and the empty payload WriteMessage is
\* given when the bytes are nil.
NoMsg == [keys |-> {}, id |-> "", method |-> "none", result |-> NilResult, error |-> NilError]
EmptyMsg == [keys |-> {}, id |-> "", method |-> "", result |-> NilResult, error |-> NilError]

\* ------------------------------------------------------------------------
\* One iteration of the session loop, as functions of the frame
\* ------------------------------------------------------------------------
Decode(h, f) == IF h = "handleWebSocket" THEN DecodeRaw(f) ELSE DecodeMap(f)

\* The response the loop builds for frame f.
Respond(h, f, now) ==
    LET d == Decode(h, f) IN
    IF h = "handleWebSocket"
    THEN IF d.err # "none" THEN sendError("", "-32700", <<"Parse error">>)
         ELSE handleRequest(d.req)
    ELSE IF d.err # "none" THEN wsParseError(d)
         ELSE wsSwitch(d.req, now)

\* Whether the code looks at the error returned by the write of the
\* response to f.  handleWebSocket checks it on the main path and not in
\* sendError; wsHandler checks it for the initialize and the three tool
\* results and discards it (_ =) everywhere else.
\* The write error checked at every site.
ErrChecked_always(h, f) == TRUE

ErrChecked(h, f) ==
    LET d == Decode(h, f) IN
    IF h = "handleWebSocket"
    THEN d.err = "none"
    ELSE /\ d.err = "none"
         /\ \/ d.req.Method = "initialize"
            \/ /\ d.req.Method = "tools/call"
               /\ wsToolsCall(d.req).Error = NilError

\* ------------------------------------------------------------------------
\* State
\* ------------------------------------------------------------------------
VARIABLES
    handler,   \* which program serves the connections
    st,        \* st[c]: Idle (no client), Open, Reading, Dispatching, Writing, Closed
    frame,     \* frame[c]: the frame being processed (NoFrame before the first)
    msg,       \* msg[c]: the encoded response to frame[c] (NoMsg if none yet)
    wstat,     \* wstat[c]: outcome for frame[c]: none, ok, failed, dropped
    reads,     \* reads[c]: frames read so far
    writes,    \* writes[c]: writes attempted so far
    decodeFailed,  \* decodeFailed[c]: some frame of c failed to decode (history)
    probe      \* the last direct call of ticketsByStatus: its argument and result

vars == <<handler, st, frame, msg, wstat, reads, writes, decodeFailed, probe>>

\* No call of ticketsByStatus made yet.
NoProbe == [status |-> "none", out |-> <<>>]

Init ==
    /\ handler \in Handlers
    /\ st = [c \in Conns |-> IF c \in Clients THEN "Open" ELSE "Idle"]
    /\ frame = [c \in Conns |-> NoFrame]
    /\ msg = [c \in Conns |-> NoMsg]
    /\ wstat = [c \in Conns |-> "none"]
    /\ reads = [c \in Conns |-> 0]
    /\ writes = [c \in Conns |-> 0]
    /\ decodeFailed = [c \in Conns |-> FALSE]
    /\ probe = NoProbe

\* Connect sending a greeting message to the new client.
Connect_greeting(c) ==
    /\ st[c] = "Open"
    /\ st' = [st EXCEPT ![c] = "Reading"]
    /\ writes' = [writes EXCEPT ![c] = @ + 1]
    /\ UNCHANGED <<probe, handler, frame, msg, wstat, reads, decodeFailed>>

\* Upgrade succeeded: the connection is logged, nothing is sent.
Connect(c) ==
    /\ st[c] = "Open"
    /\ st' = [st EXCEPT ![c] = "Reading"]
    /\ UNCHANGED <<probe, handler, frame, msg, wstat, reads, writes, decodeFailed>>

\* conn.ReadMessage returns a frame.
ReadFrame(c, f) ==
    /\ st[c] = "Reading"
    /\ reads[c] < MaxFrames
    /\ st' = [st EXCEPT ![c] = "Dispatching"]
    /\ frame' = [frame EXCEPT ![c] = f]
    /\ msg' = [msg EXCEPT ![c] = NoMsg]
    /\ wstat' = [wstat EXCEPT ![c] = "none"]
    /\ reads' = [reads EXCEPT ![c] = @ + 1]
    /\ UNCHANGED <<probe, handler, writes, decodeFailed>>

\* Close taking every connection of the process down.
Close_all(c) ==
    /\ st' = [d \in Conns |-> "Closed"]
    /\ frame' = [frame EXCEPT ![c] = NoFrame]
    /\ msg' = [msg EXCEPT ![c] = NoMsg]

\* The loop is left (return / break) and the deferred conn.Close() runs; the
\* loop's locals are gone.
Close(c) ==
    /\ st' = [st EXCEPT ![c] = "Closed"]
    /\ frame' = [frame EXCEPT ![c] = NoFrame]
    /\ msg' = [msg EXCEPT ![c] = NoMsg]

\* ReadFail telling the peer about the error before closing.
ReadFail_goodbye(c) ==
    /\ st[c] = "Reading"
    /\ Close(c)
    /\ writes' = [writes EXCEPT ![c] = @ + 1]
    /\ UNCHANGED <<probe, handler, wstat, reads, decodeFailed>>

\* conn.ReadMessage returns an error (peer closed, network error).
ReadFail(c) ==
    /\ st[c] = "Reading"
    /\ Close(c)
    /\ UNCHANGED <<probe, handler, wstat, reads, writes, decodeFailed>>

\* Dispatch dropping a request with an unknown method without a reply.
Dispatch_silent(c) ==
    /\ st[c] = "Dispatching"
    /\ IF /\ Decode(handler, frame[c]).err = "none"
          /\ Decode(handler, frame[c]).req.Method \notin {"initialize", "tools/list", "tools/call", "ping"}
       THEN /\ st' = [st EXCEPT ![c] = "Reading"]
            /\ UNCHANGED msg
       ELSE /\ \E now \in Clock :
                  msg' = [msg EXCEPT ![c] = Marshal(Respond(handler, frame[c], now))]
            /\ st' = [st EXCEPT ![c] = "Writing"]
    /\ decodeFailed' = [decodeFailed EXCEPT ![c] = @ \/ Decode(handler, frame[c]).err # "none"]
    /\ UNCHANGED <<probe, handler, frame, wstat, reads, writes>>

\* Decode, route and encode; the bytes are ready to be written.
Dispatch(c) ==
    /\ st[c] = "Dispatching"
    /\ \E now \in Clock :
          msg' = [msg EXCEPT ![c] = Marshal(Respond(handler, frame[c], now))]
    /\ st' = [st EXCEPT ![c] = "Writing"]
    /\ decodeFailed' = [decodeFailed EXCEPT ![c] = @ \/ Decode(handler, frame[c]).err # "none"]
    /\ UNCHANGED <<probe, handler, frame, wstat, reads, writes>>

\* conn.WriteMessage succeeds: back to the top of the loop.
WriteOK(c) ==
    /\ st[c] = "Writing"
    /\ st' = [st EXCEPT ![c] = "Reading"]
    /\ wstat' = [wstat EXCEPT ![c] = "ok"]
    /\ writes' = [writes EXCEPT ![c] = @ + 1]
    /\ UNCHANGED <<probe, handler, frame, msg, reads, decodeFailed>>

\* conn.WriteMessage returns an error: the loop ends where the error is
\* checked and goes on where it is discarded.
WriteFail(c) ==
    /\ st[c] = "Writing"
    /\ wstat' = [wstat EXCEPT ![c] = "failed"]
    /\ writes' = [writes EXCEPT ![c] = @ + 1]
    /\ IF ErrChecked(handler, frame[c])
       THEN Close(c)
       ELSE /\ st' = [st EXCEPT ![c] = "Reading"]
            /\ UNCHANGED <<frame, msg>>
    /\ UNCHANGED <<probe, handler, reads, decodeFailed>>

\* json.Marshal returns an error.
\*  handleWebSocket, main path: logged, continue, nothing written.
\*  handleWebSocket, sendError: the error is discarded and WriteMessage is
\*    called with the nil bytes.
\*  wsHandler: writeJSONConn returns the error without writing; the caller
\*    treats it as a write error (return where checked, ignored elsewhere).
EncodeFail(c) ==
    /\ st[c] = "Dispatching"
    /\ IF handler = "handleWebSocket" /\ ~ErrChecked(handler, frame[c])
       THEN /\ st' = [st EXCEPT ![c] = "Writing"]
            /\ msg' = [msg EXCEPT ![c] = EmptyMsg]
            /\ UNCHANGED <<frame, wstat>>
       ELSE /\ wstat' = [wstat EXCEPT ![c] = "dropped"]
            /\ IF handler = "wsHandler" /\ ErrChecked(handler, frame[c])
               THEN Close(c)
               ELSE /\ st' = [st EXCEPT ![c] = "Reading"]
                    /\ UNCHANGED <<frame, msg>>
    /\ decodeFailed' = [decodeFailed EXCEPT ![c] = @ \/ Decode(handler, frame[c]).err # "none"]
    /\ UNCHANGED <<probe, handler, reads, writes>>

Next ==
    \/ \E c \in Conns : Connect(c)
    \/ \E c \in Conns, f \in Frames : ReadFrame(c, f)
    \/ \E c \in Conns : ReadFail(c)
    \/ \E c \in Conns : Dispatch(c)
    \/ \E c \in Conns : WriteOK(c)
    \/ \E c \in Conns : WriteFail(c)

Spec == Init /\ [][Next]_vars

\* The same program with json.Marshal allowed to fail.
NextEnc ==
    \/ Next
    \/ \E c \in Conns : EncodeFail(c)

SpecEnc == Init /\ [][NextEnc]_vars

\* The session loop does only in-memory work between a read and its write,
\* and WriteMessage returns: a frame in processing is dispatched (or its
\* encoding fails) and a pending write completes or fails.  The blocking
\* read has no fairness: a silent peer holds the session in Reading.
FairSpecEnc ==
    /\ SpecEnc
    /\ \A c \in Conns : WF_vars(Dispatch(c) \/ EncodeFail(c))
    /\ \A c \in Conns : WF_vars(WriteOK(c) \/ WriteFail(c))

\* ------------------------------------------------------------------------
\* Two clients at once
\* ------------------------------------------------------------------------
\* Frames sent when both connections have a client: one of each outcome.
SharedFrames ==
    { Garbage,
      ObjDoc(JStr("1"), JNum, NoParams),
      ObjDoc(JStr("1"), JStr("initialize"), NoParams),
      ObjDoc(JStr("1"), JStr("initialize"), ObjParams(JAbsent, JAbsent)),
      ObjDoc(JStr("1"), JStr("tools/list"), NoParams),
      ObjDoc(JStr("1"), JStr("ping"), NoParams),
      ObjDoc(JStr("1"), JStr("tools/call"), NoParams),
      ObjDoc(JStr("1"), JStr("tools/call"), ObjParams(JStr("get_done_tickets"), JAbsent)),
      ObjDoc(JStr("1"), JStr("tools/call"), ObjParams(JStr("nonexistent"), JAbsent)) }

InitMulti ==
    /\ handler \in Handlers
    /\ st = [c \in Conns |-> "Open"]
    /\ frame = [c \in Conns |-> NoFrame]
    /\ msg = [c \in Conns |-> NoMsg]
    /\ wstat = [c \in Conns |-> "none"]
    /\ reads = [c \in Conns |-> 0]
    /\ writes = [c \in Conns |-> 0]
    /\ decodeFailed = [c \in Conns |-> FALSE]
    /\ probe = NoProbe

NextMulti ==
    \/ \E c \in Conns : Connect(c)
    \/ \E c \in Conns, f \in SharedFrames : ReadFrame(c, f)
    \/ \E c \in Conns : ReadFail(c)
    \/ \E c \in Conns : Dispatch(c)
    \/ \E c \in Conns : WriteOK(c)
    \/ \E c \in Conns : WriteFail(c)

SpecMulti == InitMulti /\ [][NextMulti]_vars

\* ------------------------------------------------------------------------
\* ticketsByStatus called directly
\* ------------------------------------------------------------------------
\* Status values passed to ticketsByStatus: the three in use, one no ticket
\* has, one in another case and the empty string.
Statuses == {"pending", "todo", "done", "archived", "Done", ""}

CallTicketsByStatus(s) ==
    /\ probe' = [status |-> s, out |-> ticketsByStatus(s)]
    /\ UNCHANGED <<handler, st, frame, msg, wstat, reads, writes, decodeFailed>>

NextTickets ==
    \/ Next
    \/ \E s \in Statuses : CallTicketsByStatus(s)

SpecTickets == Init /\ [][NextTickets]_vars

\* ------------------------------------------------------------------------
\* Vocabulary of the properties
\* ------------------------------------------------------------------------
\* The outcome of decoding the frame connection c is processing.
Decoded(c) == Decode(handler, frame[c])

\* c has an encoded response to its current frame, pending or written.
HasResponse(c) == frame[c] # NoFrame /\ msg[c] # NoMsg

\* c's frame decoded into a request and its response is encoded.
Answered(c) == HasResponse(c) /\ Decoded(c).err = "none"

\* The id a frame carries: its id member when that is a string, else "".
FrameId(f) == IF f.shape = "object" /\ f.id.k = "str" THEN f.id.s ELSE ""

IsResult(m) == "result" \in m.keys
IsError(m) == "error" \in m.keys

\* The text x is part of the message.
Mentions(message, x) == \E i \in DOMAIN message : message[i] = x

RoutedMethods == {"initialize", "tools/list", "tools/call"}

\* ------------------------------------------------------------------------
\* C1: every response to a frame that decoded into a request r carries
\* r's id, whatever the method and whatever frames came before.
\* ------------------------------------------------------------------------
C1_IdEchoed ==
    \A c \in Conns : Answered(c) => msg[c].id = FrameId(frame[c])

\* An unknown method with id "2", answered as the second frame of c.
C1_Witness ==
    \E c \in Conns :
        /\ wstat[c] = "ok" /\ reads[c] = 2 /\ Answered(c)
        /\ frame[c].id = JStr("2") /\ frame[c].method = JStr("unknown/thing")
        /\ msg[c].id = "2"

\* ------------------------------------------------------------------------
\* C2: a frame that fails to decode does not end the session: the reply is
\* an error with the parse-error code, the session is back in Reading after
\* the write whatever its outcome, and a valid request (initialize, or
\* tools/call of a registered tool) read later on the connection gets a
\* result.
\* ------------------------------------------------------------------------
ValidRequest(f) ==
    /\ f.shape = "object" /\ f.id.k = "str"
    /\ \/ f.method = JStr("initialize") /\ f.params = NoParams
       \/ /\ f.method = JStr("tools/call") /\ f.params.k = "obj"
          /\ f.params.name.k = "str" /\ f.params.name.s \in ToolNames
          /\ f.params.arguments.k \in {"absent", "obj"}

C2_ParseErrorReply ==
    \A c \in Conns :
        /\ (HasResponse(c) /\ Decoded(c).err # "none")
              => /\ IsError(msg[c])
                 /\ msg[c].error.code = ParseErrorCode(handler)
        /\ (decodeFailed[c] /\ HasResponse(c) /\ ValidRequest(frame[c]))
              => IsResult(msg[c])

C2_StaysOpen ==
    \A c \in Conns :
        (st[c] = "Writing" /\ Decoded(c).err # "none" /\ st'[c] # st[c])
            => st'[c] = "Reading"

C2_ParseErrorKeepsSession == []C2_ParseErrorReply /\ [][C2_StaysOpen]_vars

\* After a frame that failed to decode, whose error reply could not be
\* written, a valid request has been answered with a result.
C2_Witness ==
    \E c \in Conns :
        /\ decodeFailed[c] /\ writes[c] = 2 /\ wstat[c] = "ok"
        /\ ValidRequest(frame[c]) /\ IsResult(msg[c])

\* ------------------------------------------------------------------------
\* C3 (as claimed): whenever the write of a response fails the session is
\* over: it is Closed, so nothing more is read or written.
\* ------------------------------------------------------------------------
C3_WriteFailureCloses ==
    \A c \in Conns : wstat[c] = "failed" => st[c] = "Closed"

\* ------------------------------------------------------------------------
\* C4 (as claimed): a session becomes Closed only from Reading (the read
\* failed) or from Writing with the write failing; in particular an encoding
\* failure leaves it in Reading.
\* ------------------------------------------------------------------------
C4_ClosedOnlyByIO ==
    \A c \in Conns :
        (st'[c] = "Closed" /\ st[c] # "Closed")
            => \/ st[c] = "Reading"
               \/ st[c] = "Writing" /\ wstat'[c] = "failed"

C4_OnlyReadOrWriteFailureCloses == [][C4_ClosedOnlyByIO]_vars

\* ------------------------------------------------------------------------
\* C5: the server writes only in reply to a frame it read, one at a time:
\* nothing is written before the first read, a frame being processed is
\* the only one without a write attempt, and when the session is ready to
\* read again every frame read has had exactly one write attempted.
\* ------------------------------------------------------------------------
C5_Sequential ==
    \A c \in Conns :
        /\ writes[c] <= reads[c]
        /\ st[c] \in {"Idle", "Open"} => (writes[c] = 0 /\ reads[c] = 0 /\ msg[c] = NoMsg)
        /\ st[c] \in {"Dispatching", "Writing"} => writes[c] = reads[c] - 1
        /\ st[c] = "Reading" => writes[c] = reads[c]

\* Two frames read and two writes attempted on one connection.
C5_Witness ==
    \E c \in Conns : st[c] = "Reading" /\ reads[c] = 2 /\ writes[c] = 2

\* ------------------------------------------------------------------------
\* C6: every response has exactly one of result and error: a result (not
\* nil) and no error on success, an error and no result on failure.
\* ------------------------------------------------------------------------
C6_ResultXorError ==
    \A c \in Conns :
        HasResponse(c) =>
            /\ IsResult(msg[c]) # IsError(msg[c])
            /\ IsResult(msg[c]) => (msg[c].result # NilResult /\ msg[c].error = NilError)
            /\ IsError(msg[c]) => (msg[c].error.code # "" /\ msg[c].result = NilResult)

\* A result and an error have both been written on one connection.
C6_Witness ==
    \E c \in Conns :
        /\ wstat[c] = "ok" /\ decodeFailed[c]
        /\ IsResult(msg[c]) /\ ~IsError(msg[c]) /\ msg[c].result.tag = "tickets"

\* ------------------------------------------------------------------------
\* C7 (as claimed): a request whose method is none of initialize,
\* tools/list, tools/call gets an error with the method-not-found code,
\* the method's name in the message and the request's id; a request with
\* one of the three methods never gets that error.
\* ------------------------------------------------------------------------
C7_MethodRouting ==
    \A c \in Conns :
        Answered(c) =>
            LET m == Decoded(c).req.Method IN
            IF m \in RoutedMethods
            THEN ~(IsError(msg[c]) /\ msg[c].error.code = MethodNotFoundCode(handler))
            ELSE /\ IsError(msg[c])
                 /\ msg[c].error.code = MethodNotFoundCode(handler)
                 /\ Mentions(msg[c].error.message, m)
                 /\ msg[c].id = FrameId(frame[c])

\* ------------------------------------------------------------------------
\* C8 (as claimed): the reply to a frame that failed to decode is an error
\* carrying the frame's id when that is a string, and "" otherwise.
\* ------------------------------------------------------------------------
C8_ParseErrorKeepsId ==
    \A c \in Conns :
        (HasResponse(c) /\ Decoded(c).err # "none")
            => /\ IsError(msg[c])
               /\ msg[c].id = FrameId(frame[c])

\* ------------------------------------------------------------------------
\* C9 (as claimed): tools/call with a string name returns a result for
\* each of the three registered names and, for every other name, an error
\* with the tool-not-found code, the name in the message and the
\* request's id.
\* ------------------------------------------------------------------------
NamedToolCall(c) ==
    /\ Answered(c)
    /\ frame[c].method = JStr("tools/call")
    /\ frame[c].params.k = "obj"
    /\ frame[c].params.name.k = "str"

ToolLookup(c) ==
    LET n == frame[c].params.name.s IN
    IF n \in ToolNames
    THEN IsResult(msg[c]) /\ msg[c].result.tag = "tickets"
    ELSE /\ IsError(msg[c])
         /\ msg[c].error.code = ToolNotFoundCode(handler)
         /\ Mentions(msg[c].error.message, n)
         /\ msg[c].id = FrameId(frame[c])

C10_MissingNameIsInvalidParams ==
    \A c \in Conns :
        (/\ Answered(c)
         /\ frame[c].method = JStr("tools/call")
         /\ (frame[c].params.k # "obj" \/ frame[c].params.name.k # "str"))
            => /\ IsError(msg[c]) /\ ~IsResult(msg[c])
               /\ msg[c].error.code = InvalidParamsCode(handler)
               /\ msg[c].error # MCPError(ToolNotFoundCode(handler), <<"Unknown tool: ", "">>)

\* ------------------------------------------------------------------------
\* C11: a failed read (or a close by the peer) takes the session from
\* Reading straight to Closed, with the connection released and no write
\* attempted; a Closed session stays Closed and never reads or writes again.
\* The close happens in the step of the failed read, so a session whose
\* read has failed is Closed at once.
\* ------------------------------------------------------------------------
C11_ReadFailureStep ==
    \A c \in Conns :
        /\ (st[c] = "Reading" /\ st'[c] \notin {"Reading", "Dispatching"})
              => /\ st'[c] = "Closed"
                 /\ frame'[c] = NoFrame /\ msg'[c] = NoMsg
                 /\ writes'[c] = writes[c]
        /\ st[c] = "Closed"
              => /\ st'[c] = "Closed"
                 /\ writes'[c] = writes[c] /\ reads'[c] = reads[c]

C11_ReadFailureCloses == [][C11_ReadFailureStep]_vars

\* A session closed by a failed read after one answered frame.
C11_Witness ==
    \E c \in Conns :
        st[c] = "Closed" /\ reads[c] = 1 /\ writes[c] = 1 /\ wstat[c] = "ok"

\* ------------------------------------------------------------------------
\* C12 (as claimed): every tools/list request gets a result listing
\* exactly get_pending_tickets, get_done_tickets, get_todo_tickets in that
\* order, the same on every connection and after any history.
\* ------------------------------------------------------------------------
ToolsListed(m) == [i \in 1..Len(m.result.tools) |-> m.result.tools[i].name]

IsToolsList(c) == Answered(c) /\ frame[c].method = JStr("tools/list")

C12_ToolsListFixed ==
    \A c \in Conns :
        IsToolsList(c) =>
            /\ IsResult(msg[c])
            /\ ToolsListed(msg[c]) = <<"get_pending_tickets", "get_done_tickets", "get_todo_tickets">>
            /\ \A d \in Conns : IsToolsList(d) => msg[d].result = msg[c].result

\* ------------------------------------------------------------------------
\* C13: the results of the three ticket tools partition the ticket list:
\* each ticket of the list is in the result of exactly one tool, a result
\* holds only tickets of the list, and only tickets of the tool's status.
\* ------------------------------------------------------------------------
ToolStatus(n) ==
    IF n = "get_pending_tickets" THEN "pending"
    ELSE IF n = "get_done_tickets" THEN "done"
    ELSE "todo"

\* The tickets the running program returns for tool n.
ToolResult(n) ==
    Marshal(Respond(handler,
        ObjDoc(JStr("1"), JStr("tools/call"), ObjParams(JStr(n), JAbsent)), "t1")).result.tickets

InSeq(x, q) == \E j \in DOMAIN q : q[j] = x

C13_Partition ==
    /\ \A i \in DOMAIN tickets :
          Cardinality({n \in ToolNames : InSeq(tickets[i], ToolResult(n))}) = 1
    /\ \A n \in ToolNames : \A j \in DOMAIN ToolResult(n) :
          /\ InSeq(ToolResult(n)[j], tickets)
          /\ ToolResult(n)[j].status = ToolStatus(n)
    /\ \A c \in Conns :
          (NamedToolCall(c) /\ frame[c].params.name.s \in ToolNames /\ IsResult(msg[c]))
              => /\ msg[c].result.tickets # <<>>
                 /\ \A j \in DOMAIN msg[c].result.tickets :
                       /\ InSeq(msg[c].result.tickets[j], tickets)
                       /\ msg[c].result.tickets[j].status = ToolStatus(frame[c].params.name.s)

\* get_todo_tickets answered with the two todo tickets.
C13_Witness ==
    \E c \in Conns :
        /\ wstat[c] = "ok" /\ NamedToolCall(c)
        /\ frame[c].params.name.s = "get_todo_tickets"
        /\ Len(msg[c].result.tickets) = 2

\* ------------------------------------------------------------------------
\* C14: sessions on different connections are independent under every
\* interleaving: a step of one connection (a read, a read failure, a
\* dispatch, a write, a write failure, a close) changes nothing of another
\* connection, and the response a connection holds is the one the program
\* computes from that connection's own frame.  The program, with its ticket
\* list and tool set, is the same throughout.
\* ------------------------------------------------------------------------
ConnState(c) == <<st[c], frame[c], msg[c], wstat[c], reads[c], writes[c], decodeFailed[c]>>

C14_OwnResponse ==
    \A c \in Conns :
        HasResponse(c) =>
            \E now \in Clock : msg[c] = Marshal(Respond(handler, frame[c], now))

C14_OneConnectionPerStep ==
    /\ handler' = handler
    /\ \A c, d \in Conns :
          (c # d /\ ConnState(c)' # ConnState(c)) => ConnState(d)' = ConnState(d)

C15_NoEmptyPayload == \A c \in Conns : msg[c] # EmptyMsg

C15_DropStep ==
    \A c \in Conns :
        (st[c] = "Dispatching" /\ st'[c] \notin {"Dispatching", "Writing"})
            => /\ st'[c] = "Reading"
               /\ wstat'[c] = "dropped"
               /\ writes'[c] = writes[c]

C15_EncodeFailureDropsOne == []C15_NoEmptyPayload /\ [][C15_DropStep]_vars

\* ------------------------------------------------------------------------
\* C16: for every status s the list returned for s is the subsequence of
\* the ticket list with status s, in the list's order and without
\* duplicates; a status no ticket has gives the empty list.  The same holds
\* of the tickets each tool returns for its status.
\* ------------------------------------------------------------------------
WithStatus(s) == SelectSeq(tickets, LAMBDA t : t.status = s)

C16_Subsequence ==
    /\ probe # NoProbe => probe.out = WithStatus(probe.status)
    /\ \A c \in Conns :
          (NamedToolCall(c) /\ frame[c].params.name.s \in ToolNames /\ IsResult(msg[c]))
              => msg[c].result.tickets = WithStatus(ToolStatus(frame[c].params.name.s))

\* ticketsByStatus was called with a status no ticket has and returned the
\* empty list, next to a session that answered get_done_tickets.
C16_Witness ==
    /\ probe.status = "archived" /\ probe.out = <<>>
    /\ \E c \in Conns :
          /\ wstat[c] = "ok" /\ NamedToolCall(c)
          /\ frame[c].params.name.s = "get_done_tickets"
          /\ Len(msg[c].result.tickets) = 2

\* ------------------------------------------------------------------------
\* C17 (as claimed): a tools/call of a registered tool whose arguments
\* member is absent or a mapping gets a result with the tickets it gets
\* without arguments, and a mapping given as arguments is found in the
\* result's metadata.
\* ------------------------------------------------------------------------
C17_ArgumentsPassedThrough ==
    \A c \in Conns :
        (/\ NamedToolCall(c)
         /\ frame[c].params.name.s \in ToolNames
         /\ frame[c].params.arguments.k \in {"absent", "obj"})
            => /\ IsResult(msg[c])
               /\ msg[c].result.tickets = ToolResult(frame[c].params.name.s)
               /\ frame[c].params.arguments.k = "obj" => msg[c].result.args = "obj"

\* ------------------------------------------------------------------------
\* C18: every frame read is answered: under weak fairness of the loop's
\* own steps a session in Dispatching or Writing gets to Reading or Closed;
\* it gets there with exactly one write attempted for the frame, or, when
\* the encoding failed, with the response dropped and no write; a session
\* back in Reading has no frame left without an outcome.
\* ------------------------------------------------------------------------
Processing(c) == st[c] \in {"Dispatching", "Writing"}

C18_Leaves == \A c \in Conns : Processing(c) ~> st[c] \in {"Reading", "Closed"}

C18_OneAttempt ==
    \A c \in Conns :
        (Processing(c) /\ st'[c] \in {"Reading", "Closed"})
            => \/ /\ st[c] = "Writing"
                  /\ wstat'[c] \in {"ok", "failed"}
                  /\ writes'[c] = writes[c] + 1
               \/ /\ st[c] = "Dispatching"
                  /\ wstat'[c] = "dropped"
                  /\ writes'[c] = writes[c]

C18_NoneUnanswered ==
    \A c \in Conns :
        (st[c] = "Reading" /\ reads[c] > 0) => wstat[c] \in {"ok", "failed", "dropped"}

C18_EveryFrameAnswered ==
    C18_Leaves /\ [][C18_OneAttempt]_vars /\ []C18_NoneUnanswered

\* Two frames were read; the first was answered, the second was dropped
\* because its encoding failed, and the session is reading again.
C18_Witness ==
    \E c \in Conns :
        st[c] = "Reading" /\ reads[c] = 2 /\ writes[c] = 1 /\ wstat[c] = "dropped"

\* ------------------------------------------------------------------------
\* C19 (as claimed): the codes of the four error categories are pairwise
\* distinct, so the code of any error response names exactly one category.
\* ------------------------------------------------------------------------
Categories == {"PARSE_ERROR", "METHOD_NOT_FOUND", "INVALID_PARAMS", "TOOL_NOT_FOUND"}

CategoryCode(k) ==
    IF k = "PARSE_ERROR" THEN ParseErrorCode(handler)
    ELSE IF k = "METHOD_NOT_FOUND" THEN MethodNotFoundCode(handler)
    ELSE IF k = "INVALID_PARAMS" THEN InvalidParamsCode(handler)
    ELSE ToolNotFoundCode(handler)

C19_CodeNamesCategory ==
    \A c \in Conns :
        (HasResponse(c) /\ IsError(msg[c]))
            => Cardinality({k \in Categories : CategoryCode(k) = msg[c].error.code}) = 1

\* ------------------------------------------------------------------------
\* C20 (as claimed): the response to a decoded request depends on the
\* request alone: two sessions that decoded the same frame, after whatever
\* histories, hold the same response, and every initialize request gets
\* the same result whatever its id and params.
\* ------------------------------------------------------------------------
C20_Stateless ==
    \A c, d \in Conns :
        /\ (Answered(c) /\ Answered(d) /\ frame[c] = frame[d]) => msg[c] = msg[d]
        /\ (/\ Answered(c) /\ Answered(d)
            /\ frame[c].method = JStr("initialize") /\ frame[d].method = JStr("initialize"))
              => (IsResult(msg[c]) /\ msg[c].result = msg[d].result)

====
